---------------------------- MODULE Spec2Model ----------------------------
(***************************************************************************)
(* Panel construction of replication_code_tb818_beem136_2025.py, Section 1 *)
(* (lines 56-622): cleaning of the case records, the LA x quarter and      *)
(* national aggregates, the balanced panel, the census merge and the       *)
(* derived panel variables, up to the write of full_panel.csv.             *)
(*                                                                         *)
(* Text is a sequence of one-character strings, so that prefix tests,      *)
(* slices and the lexicographic comparisons of the code are computed, not  *)
(* assumed.  The empty text is pandas' missing text value (read_csv reads  *)
(* an empty field as NaN).  A float is a record [k, n, d]: a rational n/d  *)
(* in lowest terms, NaN, or a signed infinity; the arithmetic follows      *)
(* IEEE-754 on these three kinds and is exact on the rationals.            *)
(***************************************************************************)
EXTENDS Integers, Sequences, FiniteSets, TLC

(***************************************************************************)
(* Bounds of the model.                                                    *)
(***************************************************************************)
MaxRecords == 2

(***************************************************************************)
(* Text.                                                                   *)
(***************************************************************************)
\* The characters the model uses, in increasing code-point order.
CharOrder ==
    <<"-", "/", "0", "1", "2", "3", "4", "5", "6", "7", "8", "9",
      "A", "B", "C", "D", "E", "O", "R", "S", "U", "W", "a", "f", "n", "q",
      "x">>

Ord(c) == CHOOSE i \in 1..Len(CharOrder) : CharOrder[i] = c

DigitChars == <<"0", "1", "2", "3", "4", "5", "6", "7", "8", "9">>

IsDigit(c) == \E i \in 1..10 : DigitChars[i] = c

DigitVal(c) == (CHOOSE i \in 1..10 : DigitChars[i] = c) - 1

NullStr == << >>

MinOf(S) == CHOOSE x \in S : \A y \in S : x <= y

\* Python's str < str: code-point order, a proper prefix sorts first.
StrLess(a, b) ==
    LET m == IF Len(a) < Len(b) THEN Len(a) ELSE Len(b)
        diff == {i \in 1..m : a[i] # b[i]}
    IN  IF diff = {} THEN Len(a) < Len(b)
        ELSE Ord(a[MinOf(diff)]) < Ord(b[MinOf(diff)])

StrLeq(a, b) == a = b \/ StrLess(a, b)

\* str.startswith with a tuple of one-character prefixes.
StartsWith(s, prefixes) == Len(s) >= 1 /\ s[1] \in prefixes

\* str[:n]
StrSlice(s, n) == SubSeq(s, 1, IF Len(s) < n THEN Len(s) ELSE n)

RECURSIVE NatToStr(_)
NatToStr(n) ==
    IF n < 10 THEN <<DigitChars[n + 1]>>
    ELSE NatToStr(n \div 10) \o <<DigitChars[(n % 10) + 1]>>

\* str(int)
IntToStr(n) == IF n < 0 THEN <<"-">> \o NatToStr(0 - n) ELSE NatToStr(n)

RECURSIVE DigitsToNat(_)
DigitsToNat(s) ==
    IF Len(s) = 0 THEN 0
    ELSE 10 * DigitsToNat(SubSeq(s, 1, Len(s) - 1)) + DigitVal(s[Len(s)])

(***************************************************************************)
(* Floats.                                                                 *)
(***************************************************************************)
Abs(n) == IF n < 0 THEN 0 - n ELSE n

Sign(n) == IF n < 0 THEN 0 - 1 ELSE IF n > 0 THEN 1 ELSE 0

RECURSIVE GCD(_, _)
GCD(a, b) == IF b = 0 THEN a ELSE GCD(b, a % b)

NaN == [k |-> "nan", n |-> 0, d |-> 1]

Inf(s) == [k |-> "inf", n |-> s, d |-> 1]

\* The rational n/d (d # 0) in lowest terms with a positive denominator.
Q(n, d) ==
    LET g == GCD(Abs(n), Abs(d))
    IN  [k |-> "num", n |-> (Sign(d) * n) \div g, d |-> Abs(d) \div g]

F(n) == [k |-> "num", n |-> n, d |-> 1]

IsNaN(a) == a.k = "nan"

IsNum(a) == a.k = "num"

FZero == F(0)

FMul(a, b) ==
    IF IsNaN(a) \/ IsNaN(b) THEN NaN
    ELSE IF a.k = "inf" \/ b.k = "inf"
         THEN IF Sign(a.n) * Sign(b.n) = 0 THEN NaN
              ELSE Inf(Sign(a.n) * Sign(b.n))
    ELSE Q(a.n * b.n, a.d * b.d)

FDiv(a, b) ==
    IF IsNaN(a) \/ IsNaN(b) THEN NaN
    ELSE IF a.k = "inf"
         THEN IF b.k = "inf" THEN NaN
              ELSE Inf(IF b.n < 0 THEN 0 - a.n ELSE a.n)
    ELSE IF b.k = "inf" THEN FZero
    ELSE IF b.n = 0
         THEN IF a.n = 0 THEN NaN ELSE Inf(Sign(a.n))
    ELSE Q(a.n * b.d, a.d * b.n)

FAdd(a, b) ==
    IF IsNaN(a) \/ IsNaN(b) THEN NaN
    ELSE IF a.k = "inf"
         THEN IF b.k = "inf" /\ b.n # a.n THEN NaN ELSE a
    ELSE IF b.k = "inf" THEN b
    ELSE Q(a.n * b.d + b.n * a.d, a.d * b.d)

\* a >= b and a <= b on floats; every comparison with NaN is false.
FLeq(a, b) ==
    /\ ~IsNaN(a) /\ ~IsNaN(b)
    /\ IF a.k = "inf" THEN a.n < 0 \/ (b.k = "inf" /\ b.n > 0)
       ELSE IF b.k = "inf" THEN b.n > 0
       ELSE a.n * b.d <= b.n * a.d

\* Series.fillna(0) on one value.
FillNa0(a) == IF IsNaN(a) THEN FZero ELSE a

RECURSIVE FSumSeq(_)
FSumSeq(s) == IF Len(s) = 0 THEN FZero ELSE FAdd(s[1], FSumSeq(Tail(s)))

\* Series.sum(): missing values are skipped, an all-missing sum is 0.
SumSkipNa(s) == FSumSeq(SelectSeq(s, LAMBDA x : ~IsNaN(x)))

\* Series.mean(): missing values are skipped, an all-missing mean is missing.
MeanSkipNa(s) ==
    LET kept == SelectSeq(s, LAMBDA x : ~IsNaN(x))
    IN  IF Len(kept) = 0 THEN NaN ELSE FDiv(FSumSeq(kept), F(Len(kept)))

\* pd.to_numeric(text, errors="coerce") on the texts of the model: a run of
\* digits is its number, anything else (the empty field included) is NaN.
ToNumeric(s) ==
    IF Len(s) > 0 /\ \A i \in 1..Len(s) : IsDigit(s[i])
    THEN F(DigitsToNat(s)) ELSE NaN

(***************************************************************************)
(* Tables: a table is a sequence of rows, a row is a record.               *)
(***************************************************************************)
Range(s) == {s[i] : i \in 1..Len(s)}

RECURSIVE Flatten(_)
Flatten(ss) == IF Len(ss) = 0 THEN << >> ELSE ss[1] \o Flatten(Tail(ss))

Map(s, Op(_)) == [i \in 1..Len(s) |-> Op(s[i])]

\* Series.sort_values().unique() on a set of texts: increasing order.
RECURSIVE SortStrs(_)
SortStrs(S) ==
    IF S = {} THEN << >>
    ELSE LET x == CHOOSE x \in S : \A y \in S : StrLeq(x, y)
         IN  <<x>> \o SortStrs(S \ {x})

\* DataFrame.merge(right, how="left") on one key: the left rows in order,
\* each once per matching right row (in the right table's order), or once
\* with the right columns missing when no right row matches.
MergeLeft(left, right, Match(_, _), Join(_, _), Miss(_)) ==
    Flatten([i \in 1..Len(left) |->
        LET hits == SelectSeq(right, LAMBDA r : Match(left[i], r))
        IN  IF Len(hits) = 0 THEN <<Miss(left[i])>>
            ELSE [j \in 1..Len(hits) |-> Join(left[i], hits[j])]])

(***************************************************************************)
(* 1(B) Initial panel construction.                                        *)
(***************************************************************************)
FQ_TO_CAL_Q == (1 :> 2) @@ (2 :> 3) @@ (3 :> 4) @@ (4 :> 1)

\* Series.astype(str) on a text column: a missing value becomes "nan".
AsTypeStr(s) == IF s = NullStr THEN <<"n", "a", "n">> ELSE s

\* clean_data after the renames and the three to_numeric coercions.
CoerceRow(r) ==
    [volume    |-> r.VOL,
     value     |-> ToNumeric(r.Total_Value),
     fy        |-> r.Fin_YR,
     fq        |-> ToNumeric(r.FIN_QTR),
     lacode    |-> r.LACode,
     firm_code |-> r.firm_code,
     fy_start  |-> ToNumeric(StrSlice(AsTypeStr(r.Fin_YR), 4))]

\* cal_q = fq.map(FQ_TO_CAL_Q): a key that is not in the dict maps to NaN.
CalQ(fq) ==
    IF IsNum(fq) /\ fq.d = 1 /\ fq.n \in DOMAIN FQ_TO_CAL_Q
    THEN F(FQ_TO_CAL_Q[fq.n]) ELSE NaN

\* Mutant of CalYear: the year is not carried over for financial quarter 4.
CalYear_NoCarry(fy_start, fq) == fy_start

\* cal_year = fy_start + (fq == 4).astype(int)
CalYear(fy_start, fq) == FAdd(fy_start, F(IF fq = F(4) THEN 1 ELSE 0))

\* Series.astype(int) raises on a column that holds NaN or an infinity.
AsTypeIntRaises(col) == \E i \in 1..Len(col) : ~IsNum(col[i])

\* year_quarter of one coerced row (both columns are whole numbers here).
YearQuarter(c) ==
    IntToStr(CalYear(c.fy_start, c.fq).n) \o <<"-", "q">> \o IntToStr(CalQ(c.fq).n)

YearQuarterRaises(raw) ==
    \/ AsTypeIntRaises([i \in 1..Len(raw) |->
           CalYear(CoerceRow(raw[i]).fy_start, CoerceRow(raw[i]).fq)])
    \/ AsTypeIntRaises([i \in 1..Len(raw) |-> CalQ(CoerceRow(raw[i]).fq)])

CleanTable(raw) ==
    [i \in 1..Len(raw) |->
        CoerceRow(raw[i]) @@ ("year_quarter" :> YearQuarter(CoerceRow(raw[i])))]

RECURSIVE IntSumSeq(_)
IntSumSeq(s) == IF Len(s) = 0 THEN 0 ELSE s[1] + IntSumSeq(Tail(s))

\* Mutant of AggVolume: the records are counted, not their volumes summed.
AggVolume_Count(g) == F(Len(g))

\* The three named aggregations of one group of clean_data rows.
AggVolume(g) == F(IntSumSeq([i \in 1..Len(g) |-> g[i].volume]))

\* Mutant of AggValue: a plain sum, in which one missing value makes the
\* total missing.
AggValue_Strict(g) == FSumSeq([i \in 1..Len(g) |-> g[i].value])

AggValue(g) == SumSkipNa([i \in 1..Len(g) |-> g[i].value])

\* Mutant of AggProviders: a missing identifier counts as one more provider.
AggProviders_WithNull(g) == F(Cardinality({g[i].firm_code : i \in 1..Len(g)}))

\* nunique: the number of distinct non-missing values.
AggProviders(g) == F(Cardinality({g[i].firm_code : i \in 1..Len(g)} \ {NullStr}))

\* Mutant of LaGroup: the records of the Area in any quarter.
LaGroup_AnyQuarter(clean, q, la) ==
    SelectSeq(clean, LAMBDA r : r.lacode = la)

\* groupby(["year_quarter", "lacode"]): rows with a missing key are left
\* out (dropna), the groups come out sorted by key.
LaGroup(clean, q, la) ==
    SelectSeq(clean, LAMBDA r : r.year_quarter = q /\ r.lacode = la)

LaTotals(clean) ==
    LET keyed == SelectSeq(clean, LAMBDA r : r.lacode # NullStr)
        qs == SortStrs({keyed[i].year_quarter : i \in 1..Len(keyed)})
    IN  Flatten([i \in 1..Len(qs) |->
          LET las == SortStrs({r.lacode : r \in
                        {x \in Range(keyed) : x.year_quarter = qs[i]}})
          IN  [j \in 1..Len(las) |->
                [year_quarter     |-> qs[i],
                 lacode           |-> las[j],
                 la_total_volume  |-> AggVolume(LaGroup(clean, qs[i], las[j])),
                 la_total_value   |-> AggValue(LaGroup(clean, qs[i], las[j])),
                 unique_providers |-> AggProviders(LaGroup(clean, qs[i], las[j]))]]])

\* groupby("year_quarter"): the national totals per quarter.
QuarterGroup(clean, q) == SelectSeq(clean, LAMBDA r : r.year_quarter = q)

QuarterTotals(clean) ==
    LET qs == SortStrs({clean[i].year_quarter : i \in 1..Len(clean)})
    IN  [i \in 1..Len(qs) |->
          [year_quarter           |-> qs[i],
           total_volume           |-> AggVolume(QuarterGroup(clean, qs[i])),
           total_value            |-> AggValue(QuarterGroup(clean, qs[i])),
           total_unique_providers |-> AggProviders(QuarterGroup(clean, qs[i]))]]

\* Mutant of DropDuplicates: the last row of each code is kept.
DropDuplicates_KeepLast(t) ==
    SelectSeq([i \in 1..Len(t) |->
                  [row |-> t[i],
                   first |-> \A j \in (i + 1)..Len(t) : t[j].LAD23CD # t[i].LAD23CD]],
              LAMBDA x : x.first)

\* drop_duplicates(subset="LAD23CD"): the first row of each code is kept.
DropDuplicates(t) ==
    SelectSeq([i \in 1..Len(t) |->
                  [row |-> t[i],
                   first |-> \A j \in 1..(i - 1) : t[j].LAD23CD # t[i].LAD23CD]],
              LAMBDA x : x.first)

\* la_lookup_filtered: England and Wales rows, one per code, renamed.
LookupFiltered(lookup) ==
    LET ew == SelectSeq(lookup, LAMBDA r : StartsWith(r.LAD23CD, {"E", "W"}))
        dd == DropDuplicates(ew)
    IN  [i \in 1..Len(dd) |->
          [lacode |-> dd[i].row.LAD23CD, localauthority |-> dd[i].row.LAD23NM]]

WindowFirst == <<"2", "0", "1", "0", "-", "q", "1">>

WindowLast == <<"2", "0", "1", "9", "-", "q", "4">>

AllQuarters(totals) == SortStrs({totals[i].year_quarter : i \in 1..Len(totals)})

AllLas(filtered) == SortStrs({filtered[i].lacode : i \in 1..Len(filtered)})

\* MultiIndex.from_product([all_quarters, all_las]): quarter-major order.
PanelIndex(totals, filtered) ==
    Flatten([i \in 1..Len(AllQuarters(totals)) |->
        [j \in 1..Len(AllLas(filtered)) |->
            [year_quarter |-> AllQuarters(totals)[i],
             lacode       |-> AllLas(filtered)[j]]]])

\* set_index(...).reindex(idx): the fact row of the key, or missing facts.
Reindex(totals, key) ==
    LET hit == {r \in Range(totals) :
                  r.year_quarter = key.year_quarter /\ r.lacode = key.lacode}
    IN  IF hit = {}
        THEN [year_quarter |-> key.year_quarter, lacode |-> key.lacode,
              la_total_volume |-> NaN, la_total_value |-> NaN,
              unique_providers |-> NaN]
        ELSE CHOOSE r \in hit : TRUE

\* Mutant of FillFacts: the missing facts are left missing.
FillFacts_NoFill(r) == r

\* fillna(0) on the three fact columns.
FillFacts(r) ==
    [r EXCEPT !.la_total_volume  = FillNa0(@),
              !.la_total_value   = FillNa0(@),
              !.unique_providers = FillNa0(@)]

\* Mutant of InWindow: the two bounds themselves are left out.
InWindow_Open(q) == StrLess(WindowFirst, q) /\ StrLess(q, WindowLast)

\* The trim to 2010-q1 .. 2019-q4, by string comparison.
InWindow(q) == StrLeq(WindowFirst, q) /\ StrLeq(q, WindowLast)

BalancedPanel(totals, qtotals, filtered) ==
    LET filled == [i \in 1..Len(PanelIndex(totals, filtered)) |->
                     FillFacts(Reindex(totals, PanelIndex(totals, filtered)[i]))]
        named == MergeLeft(filled, filtered,
                   LAMBDA l, r : l.lacode = r.lacode,
                   LAMBDA l, r : l @@ ("localauthority" :> r.localauthority),
                   LAMBDA l : l @@ ("localauthority" :> NullStr))
        totalled == MergeLeft(named, qtotals,
                   LAMBDA l, r : l.year_quarter = r.year_quarter,
                   LAMBDA l, r : l @@ [total_volume |-> r.total_volume,
                                       total_value |-> r.total_value,
                                       total_unique_providers |->
                                           r.total_unique_providers],
                   LAMBDA l : l @@ [total_volume |-> NaN, total_value |-> NaN,
                                    total_unique_providers |-> NaN])
    IN  SelectSeq(totalled, LAMBDA r : InWindow(r.year_quarter))

(***************************************************************************)
(* 1(C) Census data.  Each census extract keeps one representative measure *)
(* column per derived field (the source selects and renames dozens of      *)
(* columns, all treated alike: remap, select, sum per code).               *)
(***************************************************************************)
\* code_map = dict(zip(Old, New)): for a repeated key the last row wins.
CodeMapKeys(converter) == {converter[i].Old : i \in 1..Len(converter)}

CodeMapGet(converter, code) ==
    converter[CHOOSE i \in 1..Len(converter) :
                 /\ converter[i].Old = code
                 /\ \A j \in (i + 1)..Len(converter) : converter[j].Old # code].New

\* Mutant of ReplaceCode: a code that is not a key becomes missing.
ReplaceCode_KeysOnly(converter, code) ==
    IF code \in CodeMapKeys(converter) THEN CodeMapGet(converter, code) ELSE NullStr

\* Series.replace(code_map): a code that is a key is replaced by its value,
\* any other code is left as it is.
ReplaceCode(converter, code) ==
    IF code \in CodeMapKeys(converter) THEN CodeMapGet(converter, code) ELSE code

Remap(converter, t) ==
    [i \in 1..Len(t) |-> [t[i] EXCEPT !.lacode = ReplaceCode(converter, @)]]

\* lacode.str.startswith(("E", "W"))
FilterEW(t) == SelectSeq(t, LAMBDA r : StartsWith(r.lacode, {"E", "W"}))

CodesOf(t) == {t[i].lacode : i \in 1..Len(t)}

\* Mutant of ColSum: the count of the first row of the code is kept and the
\* other rows are dropped.
ColSum_First(t, code, col) == F(SelectSeq(t, LAMBDA r : r.lacode = code)[1][col])

\* One column of groupby("lacode").sum(): the sum over the rows of a code.
ColSum(t, code, col) ==
    F(IntSumSeq(Map(SelectSeq(t, LAMBDA r : r.lacode = code), LAMBDA r : r[col])))

GroupCodes(t) == SortStrs(CodesOf(t) \ {NullStr})

CensusCleanPopulation(converter, raw) ==
    LET t == Remap(converter, raw)
    IN  [i \in 1..Len(GroupCodes(t)) |->
          [lacode          |-> GroupCodes(t)[i],
           residents_total |-> ColSum(t, GroupCodes(t)[i], "residents_total")]]

\* The age extract: one band per age grouping (16-17, 0-4, 75-84); the
\* groupings are sums over their bands.
CensusCleanAge(converter, raw) ==
    LET t == Remap(converter, raw)
    IN  [i \in 1..Len(GroupCodes(t)) |->
          [lacode      |-> GroupCodes(t)[i],
           total_16_17 |-> ColSum(t, GroupCodes(t)[i], "total_16_17"),
           total_0_4   |-> ColSum(t, GroupCodes(t)[i], "total_0_4"),
           total_75_84 |-> ColSum(t, GroupCodes(t)[i], "total_75_84"),
           working_age |-> ColSum(t, GroupCodes(t)[i], "total_16_17"),
           children    |-> ColSum(t, GroupCodes(t)[i], "total_0_4"),
           pensioner   |-> ColSum(t, GroupCodes(t)[i], "total_75_84")]]

CensusCleanEmployment(converter, raw) ==
    LET t == FilterEW(Remap(converter, raw))
    IN  [i \in 1..Len(GroupCodes(t)) |->
          [lacode            |-> GroupCodes(t)[i],
           econ_active       |-> ColSum(t, GroupCodes(t)[i], "econ_active"),
           a_unemployed      |-> ColSum(t, GroupCodes(t)[i], "a_unemployed"),
           unemployment_rate |-> FDiv(ColSum(t, GroupCodes(t)[i], "a_unemployed"),
                                      ColSum(t, GroupCodes(t)[i], "econ_active"))]]

CensusCleanTenure(converter, raw) ==
    LET t == FilterEW(Remap(converter, raw))
    IN  [i \in 1..Len(GroupCodes(t)) |->
          [lacode        |-> GroupCodes(t)[i],
           households    |-> ColSum(t, GroupCodes(t)[i], "households"),
           hh_owned      |-> ColSum(t, GroupCodes(t)[i], "hh_owned"),
           prop_hh_owned |-> FDiv(ColSum(t, GroupCodes(t)[i], "hh_owned"),
                                  ColSum(t, GroupCodes(t)[i], "households"))]]

CensusCleanEthnicity(converter, raw) ==
    LET t == FilterEW(Remap(converter, raw))
    IN  [i \in 1..Len(GroupCodes(t)) |->
          [lacode         |-> GroupCodes(t)[i],
           residents      |-> ColSum(t, GroupCodes(t)[i], "residents"),
           eth_white      |-> ColSum(t, GroupCodes(t)[i], "eth_white"),
           prop_eth_white |-> FDiv(ColSum(t, GroupCodes(t)[i], "eth_white"),
                                   ColSum(t, GroupCodes(t)[i], "residents"))]]

\* The columns of a cleaned census table, all missing (the fill of an outer
\* merge for a code the table lacks).
MissingPopulation == [residents_total |-> NaN]

MissingAge ==
    [total_16_17 |-> NaN, total_0_4 |-> NaN, total_75_84 |-> NaN,
     working_age |-> NaN, children |-> NaN, pensioner |-> NaN]

MissingEmployment ==
    [econ_active |-> NaN, a_unemployed |-> NaN, unemployment_rate |-> NaN]

MissingTenure == [households |-> NaN, hh_owned |-> NaN, prop_hh_owned |-> NaN]

MissingEthnicity == [residents |-> NaN, eth_white |-> NaN, prop_eth_white |-> NaN]

MissingCensus ==
    MissingPopulation @@ MissingAge @@ MissingEmployment @@ MissingTenure
        @@ MissingEthnicity

\* The row of a code in a cleaned table (codes are unique after the
\* groupby), or the table's columns all missing.
RowOr(t, code, missing) ==
    IF code \in CodesOf(t)
    THEN CHOOSE r \in Range(t) : r.lacode = code
    ELSE missing

\* Mutant of CensusData: an inner merge, which keeps only the codes that all
\* five tables hold.
CensusData_Inner(pop, age, emp, ten, eth) ==
    LET codes == SortStrs(CodesOf(pop) \cap CodesOf(age) \cap CodesOf(emp)
                          \cap CodesOf(ten) \cap CodesOf(eth))
    IN  [i \in 1..Len(codes) |->
          [lacode |-> codes[i]]
            @@ RowOr(pop, codes[i], MissingPopulation)
            @@ RowOr(age, codes[i], MissingAge)
            @@ RowOr(emp, codes[i], MissingEmployment)
            @@ RowOr(ten, codes[i], MissingTenure)
            @@ RowOr(eth, codes[i], MissingEthnicity)]

\* The chain of four outer merges on lacode: one row per code of any of the
\* five tables, in sorted code order.
CensusData(pop, age, emp, ten, eth) ==
    LET codes == SortStrs(CodesOf(pop) \cup CodesOf(age) \cup CodesOf(emp)
                          \cup CodesOf(ten) \cup CodesOf(eth))
    IN  [i \in 1..Len(codes) |->
          [lacode |-> codes[i]]
            @@ RowOr(pop, codes[i], MissingPopulation)
            @@ RowOr(age, codes[i], MissingAge)
            @@ RowOr(emp, codes[i], MissingEmployment)
            @@ RowOr(ten, codes[i], MissingTenure)
            @@ RowOr(eth, codes[i], MissingEthnicity)]

\* Mutant of AllEqual: only the panel and the merged table are compared.
AllEqual_Ends(panel, pop, age, emp, ten, eth, census) ==
    CodesOf(panel) = CodesOf(census)

\* all_equal: the chained comparison of the seven code sets.
AllEqual(panel, pop, age, emp, ten, eth, census) ==
    /\ CodesOf(panel) = CodesOf(pop)
    /\ CodesOf(pop) = CodesOf(age)
    /\ CodesOf(age) = CodesOf(emp)
    /\ CodesOf(emp) = CodesOf(ten)
    /\ CodesOf(ten) = CodesOf(eth)
    /\ CodesOf(eth) = CodesOf(census)

\* The proportion columns of census_data (those named prop_*).
ProportionCols == {"prop_hh_owned", "prop_eth_white"}

\* Mutant of OutsideUnit: nothing is ever reported.
OutsideUnit_Never(census, col) == FALSE

\* not ((col >= 0) & (col <= 1)).all(): a missing value fails the test too.
OutsideUnit(census, col) ==
    \E i \in 1..Len(census) :
        ~(FLeq(FZero, census[i][col]) /\ FLeq(census[i][col], F(1)))

\* The diagnostics printed by the census checks.
CensusDiagnostics(panel, pop, age, emp, ten, eth, census) ==
    {[msg |-> "all_equal", arg |-> IF AllEqual(panel, pop, age, emp, ten, eth, census)
                                   THEN "True" ELSE "False"]}
    \cup {[msg |-> "outside_range", arg |-> c] :
             c \in {c \in ProportionCols \cup {"unemployment_rate"} :
                       OutsideUnit(census, c)}}

(***************************************************************************)
(* 1(D) Additional data and derived panel variables.                       *)
(***************************************************************************)
\* full_panel = balanced_panel.merge(census_data, on="lacode", how="left")
MergeCensus(panel, census) ==
    MergeLeft(panel, census,
        LAMBDA l, r : l.lacode = r.lacode,
        LAMBDA l, r : l @@ r,
        LAMBDA l : l @@ MissingCensus)

\* The merge of inflation_data[["year_quarter", "index_15"]] on year_quarter.
MergeInflation(panel, inflation) ==
    MergeLeft(panel, inflation,
        LAMBDA l, r : l.year_quarter = r.year_quarter,
        LAMBDA l, r : l @@ ("index_15" :> r.index_15),
        LAMBDA l : l @@ ("index_15" :> NaN))

\* missing_inf: the quarters of the panel left without an index value.
MissingInf(panel) ==
    {panel[i].year_quarter : i \in {j \in 1..Len(panel) : IsNaN(panel[j].index_15)}}

\* Mutant of AdjustRow: la_total_value itself is deflated in place.
AdjustRow_InPlace(r) ==
    [r EXCEPT !.la_total_value = FMul(r.la_total_value, r.index_15)]
        @@ [adjusted_la_total_value |-> FMul(r.la_total_value, r.index_15),
            adjusted_total_value    |-> FMul(r.total_value, r.index_15)]

AdjustRow(r) ==
    r @@ [adjusted_la_total_value |-> FMul(r.la_total_value, r.index_15),
          adjusted_total_value    |-> FMul(r.total_value, r.index_15)]

\* val_vol and la_val_vol: the division, then fillna(0).
ValVol(value, volume) == FillNa0(FDiv(value, volume))

RatioRow(r) ==
    r @@ [val_vol    |-> ValVol(r.adjusted_total_value, r.total_volume),
          la_val_vol |-> ValVol(r.adjusted_la_total_value, r.la_total_volume)]

AnchorQuarter == <<"2", "0", "1", "2", "-", "q", "4">>

AnchorRows(panel) == SelectSeq(panel, LAMBDA r : r.year_quarter = AnchorQuarter)

\* .iloc[0] on an empty selection raises IndexError.
RebaseRaises(panel) == Len(AnchorRows(panel)) = 0

\* series / anchor * 100, then fillna(0).
Rebased(x, anchor) == FillNa0(FMul(FDiv(x, anchor), F(100)))

RebaseRow(r, a) ==
    r @@ [volume_index |-> Rebased(r.total_volume, a.total_volume),
          value_index  |-> Rebased(r.adjusted_total_value, a.adjusted_total_value),
          cases_index  |-> Rebased(r.val_vol, a.val_vol)]

\* np.log: the logarithm of a positive number is kept symbolic.
Log(x) ==
    IF IsNaN(x) THEN NaN
    ELSE IF x.k = "inf" THEN (IF x.n > 0 THEN x ELSE NaN)
    ELSE IF x.n < 0 THEN NaN
    ELSE IF x.n = 0 THEN Inf(0 - 1)
    ELSE [k |-> "log", n |-> x.n, d |-> x.d]

LogRow(r) ==
    r @@ [log_residents_total |-> Log(r.residents_total),
          log_working_age     |-> Log(r.working_age)]

laspo_implemented == <<"2", "0", "1", "3", "-", "q", "1">>

\* Mutant of PreLaspo: no restriction to the quarters before the cutoff.
PreLaspo_All(panel) == panel

\* pre_laspo: the rows before the cutoff, by string comparison.
PreLaspo(panel) ==
    SelectSeq(panel, LAMBDA r : StrLess(r.year_quarter, laspo_implemented))

ValuePc(r) == FDiv(r.adjusted_la_total_value, r.residents_total)

\* exposure = pre_laspo.groupby("lacode")["value_pc"].mean(), one value per
\* code that has a pre-cutoff row.
ExposureCodes(panel) == CodesOf(PreLaspo(panel))

ExposureOf(panel, code) ==
    MeanSkipNa(Map(SelectSeq(PreLaspo(panel), LAMBDA r : r.lacode = code), ValuePc))

\* Mutant of ExposureRow: the exposure is attached to the pre-cutoff rows
\* it was computed from, and left missing on the others.
ExposureRow_PreOnly(panel, r) ==
    r @@ ("exposure" :> IF StrLess(r.year_quarter, laspo_implemented)
                        THEN MeanSkipNa(Map(SelectSeq(panel, LAMBDA x :
                                 /\ x.lacode = r.lacode
                                 /\ StrLess(x.year_quarter, laspo_implemented)),
                               LAMBDA x : FDiv(x.adjusted_la_total_value,
                                               x.residents_total)))
                        ELSE NaN)

\* The left merge of exposure on lacode.
ExposureRow(panel, r) ==
    r @@ ("exposure" :> IF r.lacode \in ExposureCodes(panel)
                        THEN ExposureOf(panel, r.lacode) ELSE NaN)

PostRow(r) ==
    r @@ ("post" :> IF StrLeq(laspo_implemented, r.year_quarter) THEN 1 ELSE 0)

\* Mutant of DesertRow: the flag is raised where there are providers.
DesertRow_Inverted(r) == r @@ ("desert" :> IF r.unique_providers = FZero THEN 0 ELSE 1)

DesertRow(r) == r @@ ("desert" :> IF r.unique_providers = FZero THEN 1 ELSE 0)

MaxOf(S) == CHOOSE x \in S : \A y \in S : y <= x

\* Mutant of EverDesertRow: each row keeps its own desert flag.
EverDesertRow_Own(panel, r) == r @@ ("ever_desert" :> r.desert)

\* groupby("lacode")["desert"].max(), merged back on lacode.
EverDesertRow(panel, r) ==
    r @@ ("ever_desert" :>
            MaxOf({panel[i].desert : i \in {j \in 1..Len(panel) :
                                               panel[j].lacode = r.lacode}}))

\* Mutant of PropZero: the number of desert rows, not their share.
PropZero_Count(panel, q) ==
    F(IntSumSeq(Map(SelectSeq(panel, LAMBDA r : r.year_quarter = q),
                    LAMBDA r : r.desert)))

\* groupby("year_quarter")["desert"].mean()
PropZero(panel, q) ==
    LET rows == SelectSeq(panel, LAMBDA r : r.year_quarter = q)
    IN  Q(IntSumSeq(Map(rows, LAMBDA r : r.desert)), Len(rows))

\* The desert rows grouped by quarter, residents_total summed; a quarter
\* without a desert row has no group and is left missing by the merge.
PopZero(panel, q) ==
    LET rows == SelectSeq(panel, LAMBDA r : r.year_quarter = q /\ r.desert = 1)
    IN  IF Len(rows) = 0 THEN NaN
        ELSE SumSkipNa(Map(rows, LAMBDA r : r.residents_total))

SharesRow(panel, r) ==
    r @@ [prop_zero |-> PropZero(panel, r.year_quarter),
          pop_zero  |-> PopZero(panel, r.year_quarter)]

\* The merge of rural_urban[["LAD23CD", "rural_code"]] on lacode = LAD23CD.
MergeRural(panel, rural) ==
    MergeLeft(panel, rural,
        LAMBDA l, r : l.lacode = r.LAD23CD,
        LAMBDA l, r : l @@ [LAD23CD |-> r.LAD23CD, rural_code |-> r.rural_code],
        LAMBDA l : l @@ [LAD23CD |-> NullStr, rural_code |-> NullStr])

\* rural_code.str.startswith("R").astype(int) raises on a missing code.
IsRuralRaises(panel) == \E i \in 1..Len(panel) : panel[i].rural_code = NullStr

IsRuralRow(r) ==
    r @@ ("is_rural" :> IF StartsWith(r.rural_code, {"R"}) THEN 1 ELSE 0)

\* The columns of the panel that hold floats, and those that hold text.
FloatCols(r) ==
    {c \in DOMAIN r : c \notin {"year_quarter", "lacode", "localauthority",
                                "LAD23CD", "rural_code", "post", "desert",
                                "ever_desert", "is_rural"}}

TextCols(r) ==
    DOMAIN r \cap {"year_quarter", "lacode", "localauthority", "LAD23CD",
                   "rural_code"}

\* isna() of one row: a missing float or a missing text in any column.
RowHasNa(r) ==
    \/ \E c \in FloatCols(r) : IsNaN(r[c])
    \/ \E c \in TextCols(r) : r[c] = NullStr

\* full_panel.isna().any().any()
HasNa(panel) == \E i \in 1..Len(panel) : RowHasNa(panel[i])

(***************************************************************************)
(* The run: the raw tables as read from disk, the tables the script        *)
(* builds, the diagnostics it prints and the file it writes.  The *_alt    *)
(* variables hold the case records and the inflation table of a second,    *)
(* independent run (used to compare two runs); they never change.          *)
(***************************************************************************)
VARIABLES pc, provider_data_raw, la_lookup, converter, census_raw,
          inflation_data, rural_urban, provider_data_alt, inflation_alt,
          clean_data, completed_la_totals, quarterly_totals,
          la_lookup_filtered, balanced_panel, census_clean, census_data,
          full_panel, printed, full_panel_csv

inputs == <<provider_data_raw, la_lookup, converter, census_raw,
            inflation_data, rural_urban, provider_data_alt, inflation_alt>>

vars == <<pc, provider_data_raw, la_lookup, converter, census_raw,
          inflation_data, rural_urban, provider_data_alt, inflation_alt,
          clean_data, completed_la_totals, quarterly_totals,
          la_lookup_filtered, balanced_panel, census_clean, census_data,
          full_panel, printed, full_panel_csv>>

(***************************************************************************)
(* Input values.                                                           *)
(***************************************************************************)
E1 == <<"E", "1">>

W1 == <<"W", "1">>

S1 == <<"S", "1">>

O1 == <<"O", "1">>

FY2012 == <<"2", "0", "1", "2", "/", "1", "3">>

FY2019 == <<"2", "0", "1", "9", "/", "2", "0">>

Q2012q2 == <<"2", "0", "1", "2", "-", "q", "2">>

Q2012q3 == <<"2", "0", "1", "2", "-", "q", "3">>

Q2013q1 == <<"2", "0", "1", "3", "-", "q", "1">>

Q2019q2 == <<"2", "0", "1", "9", "-", "q", "2">>

Q2019q3 == <<"2", "0", "1", "9", "-", "q", "3">>

Q2019q4 == <<"2", "0", "1", "9", "-", "q", "4">>

Q2020q1 == <<"2", "0", "2", "0", "-", "q", "1">>

SeqsUpTo(S, n) == UNION {[1..k -> S] : k \in 0..n}

\* Case records that vary in financial year and quarter.
PeriodRecords ==
    [VOL : {1}, Total_Value : {<<"1">>}, Fin_YR : {FY2012, FY2019},
     FIN_QTR : {<<"1">>, <<"2">>, <<"3">>, <<"4">>, <<"x">>},
     LACode : {E1}, firm_code : {<<"f", "1">>}]

\* Case records on both sides of the first quarter of the window:
\* 2009/10 Q3 is 2009-q4 and 2009/10 Q4 is 2010-q1.
WindowEdgeRecords ==
    [VOL : {1}, Total_Value : {<<"1">>},
     Fin_YR : {<<"2", "0", "0", "9", "/", "1", "0">>},
     FIN_QTR : {<<"3">>, <<"4">>},
     LACode : {E1}, firm_code : {<<"f", "1">>}]

\* Case records that vary in volume and value around the anchor quarter.
AmountRecords ==
    [VOL : {0, 1}, Total_Value : {<<"0">>, <<"2">>}, Fin_YR : {FY2012},
     FIN_QTR : {<<"2">>, <<"3">>, <<"4">>},
     LACode : {E1}, firm_code : {<<"f", "1">>}]

\* Case records of one cell whose value field may not be a number.
ValueRecords ==
    [VOL : {1}, Total_Value : {<<"1">>, <<"x">>, NullStr}, Fin_YR : {FY2012},
     FIN_QTR : {<<"3">>},
     LACode : {E1}, firm_code : {<<"f", "1">>}]

\* Case records that vary in area and provider.
AreaRecords ==
    [VOL : {1}, Total_Value : {<<"1">>}, Fin_YR : {FY2012},
     FIN_QTR : {<<"3">>},
     LACode : {E1, W1, S1, NullStr},
     firm_code : {<<"f", "1">>, <<"f", "2">>, NullStr}]

Rec(vol, val, fy, fq, la, firm) ==
    [VOL |-> vol, Total_Value |-> val, Fin_YR |-> fy, FIN_QTR |-> fq,
     LACode |-> la, firm_code |-> firm]

\* Record tables used while the other tables vary.
BaseRecordTables ==
    {<<Rec(1, <<"2">>, FY2012, <<"3">>, E1, <<"f", "1">>),
       Rec(2, <<"1">>, FY2012, <<"4">>, E1, <<"f", "1">>)>>,
     <<Rec(1, <<"1">>, FY2012, <<"2">>, W1, <<"f", "2">>),
       Rec(1, <<"1">>, FY2012, <<"3">>, S1, <<"f", "1">>)>>}

DefaultLookup ==
    <<[LAD23CD |-> E1, LAD23NM |-> <<"A">>], [LAD23CD |-> W1, LAD23NM |-> <<"B">>]>>

Lookups ==
    {DefaultLookup,
     <<[LAD23CD |-> E1, LAD23NM |-> <<"A">>], [LAD23CD |-> S1, LAD23NM |-> <<"C">>],
       [LAD23CD |-> E1, LAD23NM |-> <<"D">>]>>}

DefaultConverter == <<[Old |-> O1, New |-> E1]>>

Pop(code, n) == [lacode |-> code, residents_total |-> n]

Age(code, n) ==
    [lacode |-> code, total_16_17 |-> n, total_0_4 |-> 1, total_75_84 |-> 1]

Emp(code, active, unemployed) ==
    [lacode |-> code, econ_active |-> active, a_unemployed |-> unemployed]

Ten(code, all, owned) == [lacode |-> code, households |-> all, hh_owned |-> owned]

Eth(code, all, white) == [lacode |-> code, residents |-> all, eth_white |-> white]

DefaultCensus ==
    [population |-> <<Pop(E1, 2), Pop(W1, 1)>>,
     ages       |-> <<Age(E1, 1), Age(W1, 1)>>,
     employment |-> <<Emp(E1, 2, 1), Emp(W1, 1, 0)>>,
     tenure     |-> <<Ten(E1, 2, 1), Ten(W1, 1, 1)>>,
     ethnicity  |-> <<Eth(E1, 2, 1), Eth(W1, 1, 0)>>]

Censuses ==
    {DefaultCensus,
     \* an old code that merges into E1, and no W1 in the population extract
     [population |-> <<Pop(O1, 1), Pop(E1, 2)>>,
      ages       |-> <<Age(O1, 1), Age(E1, 1), Age(W1, 1)>>,
      employment |-> <<Emp(O1, 1, 1), Emp(E1, 1, 0), Emp(W1, 0, 0)>>,
      tenure     |-> <<Ten(E1, 2, 1), Ten(W1, 1, 2), Ten(S1, 1, 1)>>,
      ethnicity  |-> <<Eth(E1, 2, 1), Eth(W1, 1, 0)>>],
     \* an area without residents
     [population |-> <<Pop(E1, 0), Pop(W1, 1)>>,
      ages       |-> <<Age(E1, 0), Age(W1, 1)>>,
      employment |-> <<Emp(E1, 2, 1), Emp(W1, 1, 0)>>,
      tenure     |-> <<Ten(E1, 2, 1), Ten(W1, 1, 1)>>,
      ethnicity  |-> <<Eth(E1, 0, 0), Eth(W1, 1, 0)>>],
     \* an area with unemployed residents and no economically active ones
     [population |-> <<Pop(E1, 2), Pop(W1, 1)>>,
      ages       |-> <<Age(E1, 1), Age(W1, 1)>>,
      employment |-> <<Emp(E1, 0, 1), Emp(W1, 1, 0)>>,
      tenure     |-> <<Ten(E1, 2, 1), Ten(W1, 1, 1)>>,
      ethnicity  |-> <<Eth(E1, 2, 1), Eth(W1, 1, 0)>>]}

Idx(q, n) == [year_quarter |-> q, index_15 |-> F(n)]

DefaultInflation ==
    <<Idx(Q2012q2, 1), Idx(Q2012q3, 1), Idx(AnchorQuarter, 2), Idx(Q2013q1, 1),
      Idx(Q2019q2, 1), Idx(Q2019q3, 1), Idx(Q2019q4, 1)>>

Inflations ==
    {DefaultInflation,
     \* no index for the anchor quarter
     <<Idx(Q2012q2, 1), Idx(Q2012q3, 1), Idx(Q2013q1, 1)>>,
     \* two rows for one quarter
     <<Idx(Q2012q2, 1), Idx(Q2012q3, 1), Idx(AnchorQuarter, 2), Idx(Q2013q1, 1),
       Idx(Q2013q1, 2)>>}

Rur(code, rc) == [LAD23CD |-> code, rural_code |-> rc]

DefaultRural == <<Rur(E1, <<"R">>), Rur(W1, <<"U">>)>>

Rurals ==
    {DefaultRural,
     <<Rur(E1, <<"U">>)>>,
     <<Rur(E1, <<"R">>), Rur(W1, <<"U">>), Rur(E1, <<"U">>)>>}

(***************************************************************************)
(* Initial states: the raw tables on disk, nothing built yet.              *)
(***************************************************************************)
NothingBuilt ==
    /\ pc = "clean"
    /\ clean_data = << >>
    /\ completed_la_totals = << >>
    /\ quarterly_totals = << >>
    /\ la_lookup_filtered = << >>
    /\ balanced_panel = << >>
    /\ census_clean = << >>
    /\ census_data = << >>
    /\ full_panel = << >>
    /\ printed = {}
    /\ full_panel_csv = [written |-> FALSE, rows |-> << >>]

DefaultTables ==
    /\ la_lookup = DefaultLookup
    /\ converter = DefaultConverter
    /\ census_raw = DefaultCensus
    /\ inflation_data = DefaultInflation
    /\ rural_urban = DefaultRural

\* The case records vary, the other tables are the default ones.
InitRecords ==
    /\ provider_data_raw \in SeqsUpTo(PeriodRecords, MaxRecords)
                             \cup SeqsUpTo(AmountRecords, MaxRecords)
                             \cup SeqsUpTo(AreaRecords, MaxRecords)
                             \cup SeqsUpTo(ValueRecords, MaxRecords)
                             \cup SeqsUpTo(WindowEdgeRecords, MaxRecords)
    /\ DefaultTables

\* The other tables vary over a few case-record tables.
InitTables ==
    /\ provider_data_raw \in BaseRecordTables
    /\ la_lookup \in Lookups
    /\ converter = DefaultConverter
    /\ census_raw \in Censuses
    /\ inflation_data \in Inflations
    /\ rural_urban \in Rurals

\* Case records of a pair of runs: quarters around the cutoff.
TwinRecords ==
    [VOL : {1}, Total_Value : {<<"1">>, <<"2">>}, Fin_YR : {FY2012},
     FIN_QTR : {<<"3">>, <<"4">>},
     LACode : {E1}, firm_code : {<<"f", "1">>}]

\* A table whose financial quarter is not a number.
UnparseableTable == <<Rec(1, <<"1">>, FY2012, <<"x">>, E1, <<"f", "1">>)>>

\* Inflation tables that agree with the default one before the cutoff.
TwinInflations ==
    {DefaultInflation,
     <<Idx(Q2012q2, 1), Idx(Q2012q3, 1), Idx(AnchorQuarter, 2), Idx(Q2013q1, 3),
       Idx(Q2013q1, 2)>>}

\* The records of a parseable table that fall before the cutoff.
RecordsBeforeCutoff(raw) ==
    SelectSeq(raw, LAMBDA r : StrLess(YearQuarter(CoerceRow(r)), laspo_implemented))

InflationBeforeCutoff(infl) ==
    SelectSeq(infl, LAMBDA r : StrLess(r.year_quarter, laspo_implemented))

\* The case records and inflation tables of the two runs differ only in
\* quarters from the cutoff on.
DifferOnlyAfterCutoff ==
    /\ ~YearQuarterRaises(provider_data_raw)
    /\ ~YearQuarterRaises(provider_data_alt)
    /\ RecordsBeforeCutoff(provider_data_alt) = RecordsBeforeCutoff(provider_data_raw)
    /\ InflationBeforeCutoff(inflation_alt) = InflationBeforeCutoff(inflation_data)

\* A pair of runs: the second run's records and inflation table differ
\* from the first run's only from the cutoff on.
InitPair ==
    /\ provider_data_raw \in SeqsUpTo(TwinRecords, MaxRecords) \cup {UnparseableTable}
    /\ DefaultTables
    /\ provider_data_alt \in SeqsUpTo(TwinRecords, MaxRecords) \cup {UnparseableTable}
    /\ inflation_alt \in TwinInflations
    /\ IF YearQuarterRaises(provider_data_raw)
       THEN provider_data_alt = provider_data_raw /\ inflation_alt = inflation_data
       ELSE DifferOnlyAfterCutoff

InitTwin ==
    /\ \/ InitPair
       \/ InitTables /\ provider_data_alt = provider_data_raw
                     /\ inflation_alt = inflation_data
    /\ NothingBuilt

Init ==
    /\ InitRecords \/ InitTables
    /\ provider_data_alt = provider_data_raw
    /\ inflation_alt = inflation_data
    /\ NothingBuilt

(***************************************************************************)
(* The steps of the script, in program order.  A step that raises ends the *)
(* run (pc = "aborted"): nothing after it is executed.                     *)
(***************************************************************************)
\* Lines 73-93: the coercions and year_quarter.
CleanData ==
    /\ pc = "clean"
    /\ ~YearQuarterRaises(provider_data_raw)
    /\ clean_data' = CleanTable(provider_data_raw)
    /\ pc' = "la_totals"
    /\ UNCHANGED <<inputs, completed_la_totals, quarterly_totals,
                   la_lookup_filtered, balanced_panel, census_clean,
                   census_data, full_panel, printed, full_panel_csv>>

\* Line 93 raises: a row without a whole-number year or quarter.
CleanDataRaises ==
    /\ pc = "clean"
    /\ YearQuarterRaises(provider_data_raw)
    /\ pc' = "aborted"
    /\ UNCHANGED <<inputs, clean_data, completed_la_totals, quarterly_totals,
                   la_lookup_filtered, balanced_panel, census_clean,
                   census_data, full_panel, printed, full_panel_csv>>

\* Lines 98-104.
ComputeLaTotals ==
    /\ pc = "la_totals"
    /\ completed_la_totals' = LaTotals(clean_data)
    /\ pc' = "q_totals"
    /\ UNCHANGED <<inputs, clean_data, quarterly_totals, la_lookup_filtered,
                   balanced_panel, census_clean, census_data, full_panel,
                   printed, full_panel_csv>>

\* Lines 109-115.
ComputeQuarterlyTotals ==
    /\ pc = "q_totals"
    /\ quarterly_totals' = QuarterTotals(clean_data)
    /\ pc' = "lookup"
    /\ UNCHANGED <<inputs, clean_data, completed_la_totals, la_lookup_filtered,
                   balanced_panel, census_clean, census_data, full_panel,
                   printed, full_panel_csv>>

\* Lines 120-130.
FilterLookup ==
    /\ pc = "lookup"
    /\ la_lookup_filtered' = LookupFiltered(la_lookup)
    /\ pc' = "balance"
    /\ UNCHANGED <<inputs, clean_data, completed_la_totals, quarterly_totals,
                   balanced_panel, census_clean, census_data, full_panel,
                   printed, full_panel_csv>>

\* Lines 136-179.
BalancePanel ==
    /\ pc = "balance"
    /\ balanced_panel' =
           BalancedPanel(completed_la_totals, quarterly_totals, la_lookup_filtered)
    /\ pc' = "census"
    /\ UNCHANGED <<inputs, clean_data, completed_la_totals, quarterly_totals,
                   la_lookup_filtered, census_clean, census_data, full_panel,
                   printed, full_panel_csv>>

\* Lines 188-484: the five cleaned census tables and their merge.
CleanCensus ==
    /\ pc = "census"
    /\ census_clean' =
           [population |-> CensusCleanPopulation(converter, census_raw.population),
            ages       |-> CensusCleanAge(converter, census_raw.ages),
            employment |-> CensusCleanEmployment(converter, census_raw.employment),
            tenure     |-> CensusCleanTenure(converter, census_raw.tenure),
            ethnicity  |-> CensusCleanEthnicity(converter, census_raw.ethnicity)]
    /\ census_data' = CensusData(census_clean'.population, census_clean'.ages,
                                 census_clean'.employment, census_clean'.tenure,
                                 census_clean'.ethnicity)
    /\ pc' = "census_checks"
    /\ UNCHANGED <<inputs, clean_data, completed_la_totals, quarterly_totals,
                   la_lookup_filtered, balanced_panel, full_panel, printed,
                   full_panel_csv>>

\* Lines 487-516: the checks print and change nothing else.
CheckCensus ==
    /\ pc = "census_checks"
    /\ printed' = printed \cup
           CensusDiagnostics(balanced_panel, census_clean.population,
                             census_clean.ages, census_clean.employment,
                             census_clean.tenure, census_clean.ethnicity,
                             census_data)
    /\ pc' = "merge_census"
    /\ UNCHANGED <<inputs, clean_data, completed_la_totals, quarterly_totals,
                   la_lookup_filtered, balanced_panel, census_clean,
                   census_data, full_panel, full_panel_csv>>

\* Line 520.
BuildFullPanel ==
    /\ pc = "merge_census"
    /\ full_panel' = MergeCensus(balanced_panel, census_data)
    /\ pc' = "inflation"
    /\ UNCHANGED <<inputs, clean_data, completed_la_totals, quarterly_totals,
                   la_lookup_filtered, balanced_panel, census_clean,
                   census_data, printed, full_panel_csv>>

built == <<clean_data, completed_la_totals, quarterly_totals,
           la_lookup_filtered, balanced_panel, census_clean, census_data>>

\* Lines 526-536: the inflation merge and the report of quarters without
\* an index.
AddInflation ==
    /\ pc = "inflation"
    /\ full_panel' = MergeInflation(full_panel, inflation_data)
    /\ printed' = printed \cup
           {[msg |-> "missing_inf", arg |-> q] : q \in MissingInf(full_panel')}
    /\ pc' = "adjust"
    /\ UNCHANGED <<inputs, built, full_panel_csv>>

\* Lines 539-540.
AdjustValues ==
    /\ pc = "adjust"
    /\ full_panel' = Map(full_panel, AdjustRow)
    /\ pc' = "ratios"
    /\ UNCHANGED <<inputs, built, printed, full_panel_csv>>

\* Lines 543-546.
ComputeRatios ==
    /\ pc = "ratios"
    /\ full_panel' = Map(full_panel, RatioRow)
    /\ pc' = "rebase"
    /\ UNCHANGED <<inputs, built, printed, full_panel_csv>>

\* Lines 550-558.
RebaseIndices ==
    /\ pc = "rebase"
    /\ ~RebaseRaises(full_panel)
    /\ full_panel' = Map(full_panel, LAMBDA r : RebaseRow(r, AnchorRows(full_panel)[1]))
    /\ pc' = "logs"
    /\ UNCHANGED <<inputs, built, printed, full_panel_csv>>

\* Line 550 raises: the panel has no row of the anchor quarter.
RebaseIndicesRaises ==
    /\ pc = "rebase"
    /\ RebaseRaises(full_panel)
    /\ pc' = "aborted"
    /\ UNCHANGED <<inputs, built, full_panel, printed, full_panel_csv>>

\* Lines 564-565.
AddLogs ==
    /\ pc = "logs"
    /\ full_panel' = Map(full_panel, LogRow)
    /\ pc' = "exposure"
    /\ UNCHANGED <<inputs, built, printed, full_panel_csv>>

\* Lines 568-580.
AddExposure ==
    /\ pc = "exposure"
    /\ full_panel' = Map(full_panel, LAMBDA r : ExposureRow(full_panel, r))
    /\ pc' = "post"
    /\ UNCHANGED <<inputs, built, printed, full_panel_csv>>

\* Line 584.
AddPost ==
    /\ pc = "post"
    /\ full_panel' = Map(full_panel, PostRow)
    /\ pc' = "desert"
    /\ UNCHANGED <<inputs, built, printed, full_panel_csv>>

\* Line 587.
AddDesert ==
    /\ pc = "desert"
    /\ full_panel' = Map(full_panel, DesertRow)
    /\ pc' = "ever_desert"
    /\ UNCHANGED <<inputs, built, printed, full_panel_csv>>

\* Lines 590-591.
AddEverDesert ==
    /\ pc = "ever_desert"
    /\ full_panel' = Map(full_panel, LAMBDA r : EverDesertRow(full_panel, r))
    /\ pc' = "shares"
    /\ UNCHANGED <<inputs, built, printed, full_panel_csv>>

\* Lines 594-607.
AddDesertShares ==
    /\ pc = "shares"
    /\ full_panel' = Map(full_panel, LAMBDA r : SharesRow(full_panel, r))
    /\ pc' = "rural"
    /\ UNCHANGED <<inputs, built, printed, full_panel_csv>>

\* Lines 610-612.
AddRural ==
    /\ pc = "rural"
    /\ ~IsRuralRaises(MergeRural(full_panel, rural_urban))
    /\ full_panel' = Map(MergeRural(full_panel, rural_urban), IsRuralRow)
    /\ pc' = "final_check"
    /\ UNCHANGED <<inputs, built, printed, full_panel_csv>>

\* Mutant of AddRuralRaises: the panel built so far is written before the
\* run stops.
AddRuralRaises_AfterWrite ==
    /\ pc = "rural"
    /\ IsRuralRaises(MergeRural(full_panel, rural_urban))
    /\ full_panel' = MergeRural(full_panel, rural_urban)
    /\ full_panel_csv' = [written |-> TRUE, rows |-> full_panel']
    /\ pc' = "aborted"
    /\ UNCHANGED <<inputs, built, printed>>

\* Line 612 raises after the merge of line 611 has been assigned.
AddRuralRaises ==
    /\ pc = "rural"
    /\ IsRuralRaises(MergeRural(full_panel, rural_urban))
    /\ full_panel' = MergeRural(full_panel, rural_urban)
    /\ pc' = "aborted"
    /\ UNCHANGED <<inputs, built, printed, full_panel_csv>>

\* Lines 615-618: the final check prints one of two messages.
FinalCheck ==
    /\ pc = "final_check"
    /\ printed' = printed \cup
           {[msg |-> IF HasNa(full_panel) THEN "NAs detected" ELSE "No NAs in panel.",
             arg |-> NullStr]}
    /\ pc' = "save"
    /\ UNCHANGED <<inputs, built, full_panel, full_panel_csv>>

\* Lines 621-622.
SavePanel ==
    /\ pc = "save"
    /\ full_panel_csv' = [written |-> TRUE, rows |-> full_panel]
    /\ printed' = printed \cup {[msg |-> "Panel saved", arg |-> NullStr]}
    /\ pc' = "done"
    /\ UNCHANGED <<inputs, built, full_panel>>

Next ==
    \/ CleanData
    \/ CleanDataRaises
    \/ ComputeLaTotals
    \/ ComputeQuarterlyTotals
    \/ FilterLookup
    \/ BalancePanel
    \/ CleanCensus
    \/ CheckCensus
    \/ BuildFullPanel
    \/ AddInflation
    \/ AdjustValues
    \/ ComputeRatios
    \/ RebaseIndices
    \/ RebaseIndicesRaises
    \/ AddLogs
    \/ AddExposure
    \/ AddPost
    \/ AddDesert
    \/ AddEverDesert
    \/ AddDesertShares
    \/ AddRural
    \/ AddRuralRaises
    \/ FinalCheck
    \/ SavePanel

Spec == Init /\ [][Next]_vars

\* The same script run on a pair of inputs.
SpecTwin == InitTwin /\ [][Next]_vars

(***************************************************************************)
(* Properties.                                                             *)
(***************************************************************************)
Has(r, c) == c \in DOMAIN r

\* P holds of every row of the balanced panel, of the full panel as built
\* so far, and of the written file.
EveryPanelRow(P(_)) ==
    /\ \A i \in 1..Len(balanced_panel) : P(balanced_panel[i])
    /\ \A i \in 1..Len(full_panel) : P(full_panel[i])
    /\ \A i \in 1..Len(full_panel_csv.rows) : P(full_panel_csv.rows[i])

SomeSavedRow(P(_)) ==
    /\ full_panel_csv.written
    /\ \E i \in 1..Len(full_panel_csv.rows) : P(full_panel_csv.rows[i])

\* The case records of one (Area, Period), as positions in clean_data.
RecordsOf(a, p) ==
    {i \in 1..Len(clean_data) :
        clean_data[i].lacode = a /\ clean_data[i].year_quarter = p}

RECURSIVE SumOver(_, _)
SumOver(S, f) ==
    IF S = {} THEN 0
    ELSE LET x == CHOOSE x \in S : TRUE IN f[x] + SumOver(S \ {x}, f)

\* The quarters 2010-q1 .. 2019-q4.
WindowPeriods ==
    {IntToStr(y) \o <<"-", "q">> \o IntToStr(q) : y \in 2010..2019, q \in 1..4}

\* The England and Wales codes of the geographic lookup.
LookupAreas ==
    {la_lookup[i].LAD23CD : i \in {j \in 1..Len(la_lookup) :
                                      StartsWith(la_lookup[j].LAD23CD, {"E", "W"})}}

RowCount(rows, a, p) ==
    Cardinality({i \in 1..Len(rows) : rows[i].lacode = a /\ rows[i].year_quarter = p})

\* C1: the persisted panel holds exactly one row for every Area of the
\* England/Wales lookup and every Period of 2010-q1 .. 2019-q4, whatever the
\* case records and the census, inflation and rurality tables hold.
C1_OneRowPerAreaPeriod ==
    full_panel_csv.written =>
        /\ \A a \in LookupAreas : \A p \in WindowPeriods :
              RowCount(full_panel_csv.rows, a, p) = 1
        /\ Len(full_panel_csv.rows) = Cardinality(LookupAreas) * Cardinality(WindowPeriods)

\* C2: a panel row whose (Area, Period) has no case record has
\* la_total_volume, la_total_value and unique_providers equal to 0, none of
\* them missing.
C2_NoRecordMeansZero ==
    EveryPanelRow(LAMBDA r :
        RecordsOf(r.lacode, r.year_quarter) = {} =>
            /\ r.la_total_volume = FZero
            /\ r.la_total_value = FZero
            /\ r.unique_providers = FZero)

\* C2 witness: the written panel holds a zero row of a cell without records
\* next to a cell of the same quarter that has records.
C2_Witness ==
    SomeSavedRow(LAMBDA r :
        /\ RecordsOf(r.lacode, r.year_quarter) = {}
        /\ r.la_total_volume = FZero /\ r.unique_providers = FZero
        /\ \E i \in 1..Len(clean_data) :
              /\ clean_data[i].year_quarter = r.year_quarter
              /\ clean_data[i].lacode \in LookupAreas)

\* C3: the panel file is written only if the final table has no missing
\* value in any column.
C3_SavedOnlyWithoutMissing ==
    full_panel_csv.written => ~HasNa(full_panel_csv.rows)

\* The financial-year start of a raw record, read off its first four
\* characters, and its financial quarter.
FyStartOf(raw) == DigitsToNat(StrSlice(raw.Fin_YR, 4))

ExpectedPeriod(y, q) ==
    IF q = 4 THEN IntToStr(y + 1) \o <<"-", "q", "1">>
    ELSE IntToStr(y) \o <<"-", "q">> \o IntToStr(q + 1)

\* C4: a record with financial-year start Y and financial quarter q in 1..4
\* gets Period Y-q2, Y-q3, Y-q4 for q = 1, 2, 3 and (Y+1)-q1 for q = 4; in
\* particular 2012/13 quarter 4 gives 2013-q1.
C4_PeriodMapping ==
    \A i \in 1..Len(clean_data) :
        LET raw == provider_data_raw[i]
        IN  /\ \A q \in 1..4 :
                 raw.FIN_QTR = IntToStr(q) =>
                     clean_data[i].year_quarter = ExpectedPeriod(FyStartOf(raw), q)
            /\ (raw.Fin_YR = FY2012 /\ raw.FIN_QTR = <<"4">>) =>
                   clean_data[i].year_quarter = Q2013q1
            /\ (raw.Fin_YR = FY2019 /\ raw.FIN_QTR = <<"3">>) =>
                   clean_data[i].year_quarter = Q2019q4

\* C4 witness: a cleaned record of 2012/13, financial quarter 4.
C4_Witness ==
    \E i \in 1..Len(clean_data) :
        /\ provider_data_raw[i].Fin_YR = FY2012
        /\ provider_data_raw[i].FIN_QTR = <<"4">>
        /\ clean_data[i].year_quarter = Q2013q1

\* C5: la_total_volume of every panel row is the sum of the volume field
\* over the case records of its Area and Period.
C5_VolumeIsSumOfRecords ==
    EveryPanelRow(LAMBDA r :
        r.la_total_volume =
            F(SumOver(RecordsOf(r.lacode, r.year_quarter),
                      [i \in 1..Len(clean_data) |-> provider_data_raw[i].VOL])))

\* C5 witness: a written row that aggregates two records, and another
\* record of the same quarter that belongs to a different area.
C5_Witness ==
    SomeSavedRow(LAMBDA r :
        /\ Cardinality(RecordsOf(r.lacode, r.year_quarter)) = 2
        /\ r.la_total_volume = F(2))

\* C6: all rows of an Area carry the same exposure.
C6_ExposureConstantPerArea ==
    /\ \A i, j \in 1..Len(full_panel) :
          (Has(full_panel[i], "exposure") /\ full_panel[i].lacode = full_panel[j].lacode)
              => full_panel[i].exposure = full_panel[j].exposure
    /\ \A i, j \in 1..Len(full_panel_csv.rows) :
          full_panel_csv.rows[i].lacode = full_panel_csv.rows[j].lacode
              => full_panel_csv.rows[i].exposure = full_panel_csv.rows[j].exposure

\* C6 witness: a written Area with a row before and a row after the cutoff,
\* both carrying the same positive exposure.
C6_Witness ==
    \E i, j \in 1..Len(full_panel_csv.rows) :
        LET a == full_panel_csv.rows[i]
            b == full_panel_csv.rows[j]
        IN  /\ a.lacode = b.lacode
            /\ a.post = 0 /\ b.post = 1
            /\ IsNum(a.exposure) /\ a.exposure.n > 0
            /\ a.exposure = b.exposure
            /\ a.adjusted_la_total_value # b.adjusted_la_total_value

\* The second run, computed up to the adjusted values: its panel, whether
\* it stops before the exposure step, and the exposure it gives an Area.
AltPanel ==
    LET clean == CleanTable(provider_data_alt)
        bal == BalancedPanel(LaTotals(clean), QuarterTotals(clean),
                             LookupFiltered(la_lookup))
    IN  Map(MergeInflation(MergeCensus(bal, census_data), inflation_alt), AdjustRow)

AltAborts(alt) == YearQuarterRaises(provider_data_alt) \/ RebaseRaises(alt)

AltExposure(alt, a) ==
    IF a \in ExposureCodes(alt) THEN ExposureOf(alt, a) ELSE NaN

\* The mean of adjusted value / residents over the rows of Area a before
\* 2013-q1 (missing values skipped), missing when there is no such row.
PreCutoffMean(rows, a) ==
    MeanSkipNa(Map(SelectSeq(rows, LAMBDA r : r.lacode = a
                                              /\ StrLess(r.year_quarter, Q2013q1)),
                   LAMBDA r : FDiv(r.adjusted_la_total_value, r.residents_total)))

\* C7: an Area's exposure is the mean of adjusted value / residents over its
\* rows before 2013-q1, and two runs whose case records and inflation values
\* differ only from 2013-q1 on give every Area the same exposure.
C7_ExposureUsesOnlyPreCutoffData ==
    LET alt == AltPanel
        comparable == DifferOnlyAfterCutoff /\ ~AltAborts(alt)
    IN  /\ \A i \in 1..Len(full_panel) :
              Has(full_panel[i], "exposure") =>
                  /\ full_panel[i].exposure =
                         PreCutoffMean(full_panel, full_panel[i].lacode)
                  /\ comparable =>
                         full_panel[i].exposure =
                             AltExposure(alt, full_panel[i].lacode)
        /\ \A i \in 1..Len(full_panel_csv.rows) :
              full_panel_csv.rows[i].exposure =
                  PreCutoffMean(full_panel_csv.rows, full_panel_csv.rows[i].lacode)

\* C7 witness: a written panel with a positive exposure, whose second run
\* has other case records and other inflation values from the cutoff on.
C7_Witness ==
    /\ full_panel_csv.written
    /\ DifferOnlyAfterCutoff /\ ~AltAborts(AltPanel)
    /\ provider_data_alt # provider_data_raw
    /\ inflation_alt # inflation_data
    /\ \E i, j \in 1..Len(full_panel_csv.rows) :
          /\ IsNum(full_panel_csv.rows[i].exposure)
          /\ full_panel_csv.rows[i].exposure.n > 0
          /\ full_panel_csv.rows[j].post = 1
          /\ full_panel_csv.rows[j].la_total_value # FZero

\* The three rebased series and their index columns.
IndexSeries ==
    {<<"total_volume", "volume_index">>,
     <<"adjusted_total_value", "value_index">>,
     <<"val_vol", "cases_index">>}

\* The series value of the anchor quarter 2012-q4 (that of its first row).
AnchorValue(rows, col) ==
    (CHOOSE i \in 1..Len(rows) :
        /\ rows[i].year_quarter = AnchorQuarter
        /\ \A j \in 1..(i - 1) : rows[j].year_quarter # AnchorQuarter)
    
IndexedRows(P(_, _)) ==
    /\ \A i \in 1..Len(full_panel) :
          Has(full_panel[i], "volume_index") => P(full_panel, full_panel[i])
    /\ \A i \in 1..Len(full_panel_csv.rows) :
          P(full_panel_csv.rows, full_panel_csv.rows[i])

\* C8: on the rows of the anchor quarter 2012-q4 each rebased index is
\* exactly 100 when the anchor raw value is non-zero and exactly 0 when it
\* is zero.
C8_AnchorIndexIs100OrZero ==
    IndexedRows(LAMBDA rows, r :
        r.year_quarter = AnchorQuarter =>
            \A s \in IndexSeries :
                /\ (~IsNaN(r[s[1]]) /\ r[s[1]] # FZero) => r[s[2]] = F(100)
                /\ r[s[1]] = FZero => r[s[2]] = FZero)

\* C9: a rebased index is 0 when the series value of the anchor quarter is
\* zero or missing or the row's own series value is missing, and is series
\* value / anchor value x 100 otherwise.
C9_IndexZeroOrRatio ==
    IndexedRows(LAMBDA rows, r :
        \A s \in IndexSeries :
            LET anchor == rows[AnchorValue(rows, s[1])][s[1]]
            IN  IF anchor = FZero \/ IsNaN(anchor) \/ IsNaN(r[s[1]])
                THEN r[s[2]] = FZero
                ELSE r[s[2]] = FMul(FDiv(r[s[1]], anchor), F(100)))

\* C10: at both granularities the value-per-volume ratio is 0 on a row whose
\* volume is zero, whatever the value, and adjusted value / volume otherwise.
C10_RatioZeroWhenVolumeZero ==
    /\ \A i \in 1..Len(full_panel) :
          Has(full_panel[i], "val_vol") =>
              LET r == full_panel[i]
              IN  /\ r.la_val_vol =
                         IF r.la_total_volume = FZero THEN FZero
                         ELSE FDiv(r.adjusted_la_total_value, r.la_total_volume)
                  /\ r.val_vol =
                         IF r.total_volume = FZero THEN FZero
                         ELSE FDiv(r.adjusted_total_value, r.total_volume)
    /\ \A i \in 1..Len(full_panel_csv.rows) :
          LET r == full_panel_csv.rows[i]
          IN  /\ r.la_val_vol =
                     IF r.la_total_volume = FZero THEN FZero
                     ELSE FDiv(r.adjusted_la_total_value, r.la_total_volume)
              /\ r.val_vol =
                     IF r.total_volume = FZero THEN FZero
                     ELSE FDiv(r.adjusted_total_value, r.total_volume)

\* P holds of every row that carries column col, in the full panel as built
\* so far and in the written file; P is given the table and the row.
RowsWith(col, P(_, _)) ==
    /\ \A i \in 1..Len(full_panel) :
          Has(full_panel[i], col) => P(full_panel, full_panel[i])
    /\ \A i \in 1..Len(full_panel_csv.rows) :
          P(full_panel_csv.rows, full_panel_csv.rows[i])

\* C11: ever_desert is the same on all rows of an Area, is 1 exactly when
\* the Area's desert flag is 1 in at least one Period of the panel, and is
\* never below the row's own desert flag.
C11_EverDesertIsAnyDesert ==
    RowsWith("ever_desert", LAMBDA rows, r :
        /\ r.ever_desert \in {0, 1}
        /\ r.ever_desert = 1 <=>
               \E j \in 1..Len(rows) : rows[j].lacode = r.lacode /\ rows[j].desert = 1
        /\ \A j \in 1..Len(rows) :
               rows[j].lacode = r.lacode => rows[j].ever_desert = r.ever_desert
        /\ r.ever_desert >= r.desert)

\* C11 witness: the written panel holds an Area that is a desert in one
\* Period and not in another, with ever_desert = 1 on both rows.
C11_Witness ==
    /\ full_panel_csv.written
    /\ \E i, j \in 1..Len(full_panel_csv.rows) :
          LET a == full_panel_csv.rows[i]
              b == full_panel_csv.rows[j]
          IN  /\ a.lacode = b.lacode
              /\ a.desert = 1 /\ b.desert = 0
              /\ a.ever_desert = 1 /\ b.ever_desert = 1

\* The Areas of the lookup without any case record in a quarter of the window.
AreasWithoutRecords ==
    {a \in LookupAreas :
        \A i \in 1..Len(clean_data) :
            clean_data[i].lacode = a => clean_data[i].year_quarter \notin WindowPeriods}

PeriodsOf(rows) == {rows[i].year_quarter : i \in 1..Len(rows)}

PeriodsOfArea(rows, a) ==
    {rows[i].year_quarter : i \in {j \in 1..Len(rows) : rows[j].lacode = a}}

\* The Area has a row in every Period of the table, and all its rows have
\* zero volume, value and providers, desert = 1 and ever_desert = 1 (each
\* once the column exists).
AllZeroDesert(rows, a) ==
    /\ PeriodsOfArea(rows, a) = PeriodsOf(rows)
    /\ \A i \in 1..Len(rows) :
          rows[i].lacode = a =>
              /\ rows[i].la_total_volume = FZero
              /\ rows[i].la_total_value = FZero
              /\ rows[i].unique_providers = FZero
              /\ Has(rows[i], "desert") => rows[i].desert = 1
              /\ Has(rows[i], "ever_desert") => rows[i].ever_desert = 1

DesertAreas(rows, q) ==
    {rows[i].lacode : i \in {j \in 1..Len(rows) :
                                rows[j].year_quarter = q /\ rows[j].desert = 1}}

ResidentsOf(rows, a) ==
    rows[CHOOSE i \in 1..Len(rows) : rows[i].lacode = a].residents_total

\* C13: pop_zero on a row is the sum of resident population over the Areas
\* that are deserts in the row's Period, which is 0 for a Period without a
\* desert Area, and is never missing.
C13_PopZeroIsDesertPopulation ==
    RowsWith("pop_zero", LAMBDA rows, r :
        /\ ~IsNaN(r.pop_zero)
        /\ r.pop_zero =
               SumSkipNa(Map(SortStrs(DesertAreas(rows, r.year_quarter)),
                             LAMBDA a : ResidentsOf(rows, a))))

ProportionSource ==
    [prop_hh_owned     |-> [table |-> "tenure", num |-> "hh_owned", den |-> "households"],
     prop_eth_white    |-> [table |-> "ethnicity", num |-> "eth_white", den |-> "residents"],
     unemployment_rate |-> [table |-> "employment", num |-> "a_unemployed",
                            den |-> "econ_active"]]

\* A value that is present and not within [0, 1].
OutOfUnit(v) == ~IsNaN(v) /\ ~(FLeq(FZero, v) /\ FLeq(v, F(1)))

CensusChecked == \E m \in printed : m.msg = "all_equal"

\* C15: a proportion-typed census column (prop_* or unemployment_rate) with a
\* value outside [0, 1] gets a warning naming the column, and the value is
\* the plain ratio of its two counts, carried unchanged into the merged
\* census table and into every panel row of its Area.
C15_ProportionsFlaggedNotClamped ==
    \A col \in DOMAIN ProportionSource :
        LET src == ProportionSource[col]
        IN  /\ CensusChecked =>
                  ((\E i \in 1..Len(census_data) : OutOfUnit(census_data[i][col]))
                      => [msg |-> "outside_range", arg |-> col] \in printed)
            /\ census_clean # << >> =>
                  \A i \in 1..Len(census_clean[src.table]) :
                      LET t == census_clean[src.table][i]
                      IN  /\ t[col] = FDiv(t[src.num], t[src.den])
                          /\ \E j \in 1..Len(census_data) :
                                /\ census_data[j].lacode = t.lacode
                                /\ census_data[j][col] = t[col]
            /\ EveryPanelRow(LAMBDA r :
                  Has(r, col) =>
                      \A j \in 1..Len(census_data) :
                          census_data[j].lacode = r.lacode => r[col] = census_data[j][col])

\* C15 witness: a written panel row carries an ownership share of 2, and the
\* warning for prop_hh_owned has been printed.
C15_Witness ==
    /\ [msg |-> "outside_range", arg |-> "prop_hh_owned"] \in printed
    /\ SomeSavedRow(LAMBDA r : r.prop_hh_owned = F(2))

\* The five census extracts, and those filtered to England and Wales after
\* the remap.
CensusTables == {"population", "ages", "employment", "tenure", "ethnicity"}

FilteredCensusTables == {"employment", "tenure", "ethnicity"}

\* The codes a cleaned table must hold: the remapped codes of the extract,
\* those outside England and Wales left out where the table is filtered.
ExpectedCodes(tb) ==
    LET re == Remap(converter, census_raw[tb])
    IN  {re[i].lacode : i \in {j \in 1..Len(re) :
                                  \/ tb \notin FilteredCensusTables
                                  \/ StartsWith(re[j].lacode, {"E", "W"})}}

\* C16: in each of the five census tables the remap leaves a row whose code
\* is not a key of the old-to-new mapping as it is, and gives a row whose
\* code is a key the new code the mapping holds for it; no row is dropped
\* and no code becomes missing.
C16_RemapPassesUnmappedCodes ==
    \A tb \in CensusTables :
        LET raw == census_raw[tb]
            re  == Remap(converter, raw)
        IN  /\ Len(re) = Len(raw)
            /\ \A i \in 1..Len(raw) :
                  /\ re[i] = [raw[i] EXCEPT !.lacode = re[i].lacode]
                  /\ re[i].lacode # NullStr
                  /\ raw[i].lacode \notin CodeMapKeys(converter) =>
                         re[i].lacode = raw[i].lacode
                  /\ raw[i].lacode \in CodeMapKeys(converter) =>
                         \E k \in 1..Len(converter) :
                             /\ converter[k].Old = raw[i].lacode
                             /\ converter[k].New = re[i].lacode
            /\ census_clean # << >> => CodesOf(census_clean[tb]) = ExpectedCodes(tb)

\* C16 witness: the age extract holds the old code O1 and the unmapped code
\* W1; the cleaned table holds W1 and the new code E1, and no O1.
C16_Witness ==
    /\ census_clean # << >>
    /\ {O1, W1} \subseteq CodesOf(census_raw.ages)
    /\ O1 \in CodeMapKeys(converter) /\ W1 \notin CodeMapKeys(converter)
    /\ {E1, W1} \subseteq CodesOf(census_clean.ages)
    /\ O1 \notin CodesOf(census_clean.ages)

\* C17: a run that has aborted has written no panel file, and a panel file
\* exists only once the run has passed its last step: writing comes after
\* every step that can fail.
C17_AbortLeavesNoFile ==
    /\ pc = "aborted" => full_panel_csv = [written |-> FALSE, rows |-> << >>]
    /\ full_panel_csv.written => pc = "done"
    /\ ~full_panel_csv.written => full_panel_csv.rows = << >>

\* C17 witness: a run aborted at the last step that can fail (an Area
\* without a rurality code), with the whole panel built and nothing written.
C17_Witness ==
    /\ pc = "aborted"
    /\ ~full_panel_csv.written
    /\ Len(full_panel) > 0
    /\ \E i \in 1..Len(full_panel) :
          /\ Has(full_panel[i], "pop_zero")
          /\ Has(full_panel[i], "rural_code")
          /\ full_panel[i].rural_code = NullStr

\* A second run of Section 1 on the second run's raw tables, computed as the
\* composition of its steps (lines 73-612); defined when no step raises.
SecondRunPanel ==
    LET clean == CleanTable(provider_data_alt)
        bal == BalancedPanel(LaTotals(clean), QuarterTotals(clean),
                             LookupFiltered(la_lookup))
        cen == CensusData(CensusCleanPopulation(converter, census_raw.population),
                          CensusCleanAge(converter, census_raw.ages),
                          CensusCleanEmployment(converter, census_raw.employment),
                          CensusCleanTenure(converter, census_raw.tenure),
                          CensusCleanEthnicity(converter, census_raw.ethnicity))
        p1 == Map(MergeInflation(MergeCensus(bal, cen), inflation_alt), AdjustRow)
        p2 == Map(p1, RatioRow)
        p3 == Map(p2, LAMBDA r : RebaseRow(r, AnchorRows(p2)[1]))
        p4 == Map(p3, LogRow)
        p5 == Map(p4, LAMBDA r : ExposureRow(p4, r))
        p6 == Map(Map(p5, PostRow), DesertRow)
        p7 == Map(p6, LAMBDA r : EverDesertRow(p6, r))
        p8 == Map(p7, LAMBDA r : SharesRow(p7, r))
    IN  Map(MergeRural(p8, rural_urban), IsRuralRow)

\* The name of the first row of the lookup that holds the code.
FirstNameOf(code) ==
    la_lookup[CHOOSE i \in 1..Len(la_lookup) :
                 /\ la_lookup[i].LAD23CD = code
                 /\ \A j \in 1..(i - 1) : la_lookup[j].LAD23CD # code].LAD23NM

PanelPeriods ==
    {completed_la_totals[i].year_quarter : i \in 1..Len(completed_la_totals)}
        \cap WindowPeriods

BalancerDone == pc \notin {"clean", "la_totals", "q_totals", "lookup", "balance"}

\* C19: the balanced panel has exactly one row for every Area of the
\* England/Wales lookup and every Period that occurs in the Area-Period
\* totals and lies in 2010-q1 .. 2019-q4 (bounds included), no other row, and
\* no missing la_total_volume, la_total_value or unique_providers.
C19_BalancedKeySet ==
    BalancerDone =>
        /\ \A a \in LookupAreas : \A p \in PanelPeriods :
              RowCount(balanced_panel, a, p) = 1
        /\ \A i \in 1..Len(balanced_panel) :
              /\ balanced_panel[i].lacode \in LookupAreas
              /\ balanced_panel[i].year_quarter \in PanelPeriods
              /\ ~IsNaN(balanced_panel[i].la_total_volume)
              /\ ~IsNaN(balanced_panel[i].la_total_value)
              /\ ~IsNaN(balanced_panel[i].unique_providers)
        /\ Len(balanced_panel) = Cardinality(LookupAreas) * Cardinality(PanelPeriods)

\* C19 witness: the records hold the first quarter of the window and the
\* quarter before it; the balanced panel has the rows of 2010-q1 for both
\* Areas and no row of 2009-q4.
C19_Witness ==
    /\ BalancerDone
    /\ \E i, j \in 1..Len(clean_data) :
          /\ clean_data[i].year_quarter = WindowFirst
          /\ clean_data[j].year_quarter \notin WindowPeriods
    /\ PeriodsOf(balanced_panel) = {WindowFirst}
    /\ Len(balanced_panel) = 2

\* The case records whose year or quarter does not parse to a number, or
\* whose quarter is not one of 1..4.
UnparseableRecords ==
    {i \in 1..Len(provider_data_raw) : YearQuarterRaises(<<provider_data_raw[i]>>)}

\* C20: a case record whose financial year or quarter cannot be parsed (or
\* whose quarter is not one of 1..4) does not stop the run at the cleaning
\* step: it gets a missing Period, no group of the Area-Period or national
\* totals is made for it, and the run goes on with the other records.
C20_UnparseableRecordIsDropped ==
    UnparseableRecords # {} =>
        /\ ~(pc = "aborted" /\ clean_data = << >>)
        /\ pc # "clean" =>
              /\ Len(clean_data) = Len(provider_data_raw)
              /\ \A i \in UnparseableRecords : clean_data[i].year_quarter = NullStr
              /\ \A i \in 1..Len(completed_la_totals) :
                    completed_la_totals[i].year_quarter # NullStr
              /\ \A i \in 1..Len(quarterly_totals) :
                    quarterly_totals[i].year_quarter # NullStr

\* What the value text of a case record adds to a total: its number, or 0
\* when it is not a number.
ValueContribution(s) ==
    IF Len(s) > 0 /\ \A i \in 1..Len(s) : IsDigit(s[i]) THEN DigitsToNat(s) ELSE 0

NonNumericValue(s) == ~(Len(s) > 0 /\ \A i \in 1..Len(s) : IsDigit(s[i]))

\* The case records of one Period, as positions in clean_data.
RecordsOfPeriod(p) == {i \in 1..Len(clean_data) : clean_data[i].year_quarter = p}

\* C21: a case record with a non-numeric value does not stop the run; it
\* adds 0 to la_total_value and to total_value while its volume and its
\* provider still count in the cell, so a cell whose records all have
\* non-numeric values has la_total_value = 0.
C21_NonNumericValueCountsZero ==
    /\ (/\ \E i \in 1..Len(provider_data_raw) :
              NonNumericValue(provider_data_raw[i].Total_Value)
        /\ UnparseableRecords = {}) => ~(pc = "aborted" /\ clean_data = << >>)
    /\ EveryPanelRow(LAMBDA r :
          LET recs == RecordsOf(r.lacode, r.year_quarter)
          IN  /\ r.la_total_value =
                     F(SumOver(recs, [i \in 1..Len(clean_data) |->
                           ValueContribution(provider_data_raw[i].Total_Value)]))
              /\ r.total_value =
                     F(SumOver(RecordsOfPeriod(r.year_quarter),
                               [i \in 1..Len(clean_data) |->
                           ValueContribution(provider_data_raw[i].Total_Value)]))
              /\ r.la_total_volume =
                     F(SumOver(recs, [i \in 1..Len(clean_data) |->
                           provider_data_raw[i].VOL]))
              /\ r.unique_providers =
                     F(Cardinality({provider_data_raw[i].firm_code : i \in recs}
                                       \ {NullStr})))

\* C21 witness: a written cell of two records, one with the value 1 and one
\* with a value that is not a number: value 1, volume 2, one provider.
C21_Witness ==
    SomeSavedRow(LAMBDA r :
        LET recs == RecordsOf(r.lacode, r.year_quarter)
        IN  /\ Cardinality(recs) = 2
            /\ \E i, j \in recs :
                  /\ NonNumericValue(provider_data_raw[i].Total_Value)
                  /\ provider_data_raw[j].Total_Value = <<"1">>
            /\ r.la_total_value = F(1)
            /\ r.la_total_volume = F(2)
            /\ r.unique_providers = F(1))

\* The count columns of each census extract.
CountCols ==
    [population |-> {"residents_total"},
     ages       |-> {"total_16_17", "total_0_4", "total_75_84"},
     employment |-> {"econ_active", "a_unemployed"},
     tenure     |-> {"households", "hh_owned"},
     ethnicity  |-> {"residents", "eth_white"}]

\* The rows of a remapped extract that hold the code, and those whose code
\* is among the given ones, as positions.
SourceRows(remapped, code) ==
    {i \in 1..Len(remapped) : remapped[i].lacode = code}

AggregatedRows(remapped, codes) ==
    {i \in 1..Len(remapped) : remapped[i].lacode \in codes}

\* The count column of the extract added up over the rows at the positions.
RawSum(raw, rows, col) ==
    IntSumSeq([i \in 1..Len(raw) |-> IF i \in rows THEN raw[i][col] ELSE 0])

CleanRowsOf(tb, code) ==
    {i \in 1..Len(census_clean[tb]) : census_clean[tb][i].lacode = code}

\* C22: after remap and aggregation each census table has one row per code,
\* every count of which is the sum of the counts of the source rows that
\* ended up with the code; the column totals are those of the rows
\* aggregated, and each proportion is (sum of parts) / (sum of totals).
C22_MergedAreasAreSummed ==
    census_clean # << >> =>
        /\ \A tb \in CensusTables :
              LET raw      == census_raw[tb]
                  remapped == Remap(converter, raw)
                  expected == ExpectedCodes(tb)
                  clean    == census_clean[tb]
              IN  /\ \A code \in expected :
                        LET rows == SourceRows(remapped, code)
                        IN  /\ Cardinality(CleanRowsOf(tb, code)) = 1
                            /\ \A col \in CountCols[tb] : \A i \in CleanRowsOf(tb, code) :
                                  clean[i][col] = F(RawSum(raw, rows, col))
                  /\ \A col \in CountCols[tb] :
                        IntSumSeq([i \in 1..Len(clean) |-> clean[i][col].n])
                            = RawSum(raw, AggregatedRows(remapped, expected), col)
        /\ \A col \in DOMAIN ProportionSource :
              LET src      == ProportionSource[col]
                  raw      == census_raw[src.table]
                  remapped == Remap(converter, raw)
                  clean    == census_clean[src.table]
              IN  \A i \in 1..Len(clean) :
                      LET rows == SourceRows(remapped, clean[i].lacode)
                      IN  clean[i][col] =
                              FDiv(F(RawSum(raw, rows, src.num)),
                                   F(RawSum(raw, rows, src.den)))

\* C22 witness: the old code O1 and the code E1 it maps to both have a row
\* in the population and employment extracts; the cleaned tables hold one E1
\* row with 1 + 2 = 3 residents and the rate (1 + 0) / (1 + 1).
C22_Witness ==
    /\ census_clean # << >>
    /\ {O1, E1} \subseteq CodesOf(census_raw.population)
    /\ \E i \in 1..Len(census_clean.population) :
          /\ census_clean.population[i].lacode = E1
          /\ census_clean.population[i].residents_total = F(3)
    /\ \E i \in 1..Len(census_clean.employment) :
          /\ census_clean.employment[i].lacode = E1
          /\ census_clean.employment[i].econ_active = F(2)
          /\ census_clean.employment[i].unemployment_rate = Q(1, 2)

\* C23: an Area of the employment table with no economically active
\* resident has a missing unemployment rate, whatever its unemployed count,
\* and any other Area has the rate unemployed / economically active.
C23_ZeroActiveGivesNullRate ==
    census_clean # << >> =>
        \A i \in 1..Len(census_clean.employment) :
            LET r == census_clean.employment[i]
            IN  IF r.econ_active = FZero
                THEN IsNaN(r.unemployment_rate)
                ELSE r.unemployment_rate = FDiv(r.a_unemployed, r.econ_active)

\* The columns each cleaned census table brings to the merge.
CensusColumns ==
    [population |-> DOMAIN MissingPopulation,
     ages       |-> DOMAIN MissingAge,
     employment |-> DOMAIN MissingEmployment,
     tenure     |-> DOMAIN MissingTenure,
     ethnicity  |-> DOMAIN MissingEthnicity]

\* C24: the merged census table has exactly one row for every Area code of
\* any of the five cleaned tables and no other row; the row carries the
\* columns of each table that holds the code, and the columns of a table
\* that lacks the code are missing.
C24_OuterMergeKeepsEveryArea ==
    census_clean # << >> =>
        /\ CodesOf(census_data) =
               UNION {CodesOf(census_clean[tb]) : tb \in CensusTables}
        /\ \A i, j \in 1..Len(census_data) :
              census_data[i].lacode = census_data[j].lacode => i = j
        /\ \A i \in 1..Len(census_data) : \A tb \in CensusTables :
              LET code == census_data[i].lacode
              IN  IF code \in CodesOf(census_clean[tb])
                  THEN \A k \in CleanRowsOf(tb, code) : \A col \in CensusColumns[tb] :
                           census_data[i][col] = census_clean[tb][k][col]
                  ELSE \A col \in CensusColumns[tb] : IsNaN(census_data[i][col])

\* C24 witness: W1 is missing from the cleaned population table and present
\* in the age table; its merged row has no resident count and has its ages.
C24_Witness ==
    /\ census_clean # << >>
    /\ W1 \notin CodesOf(census_clean.population)
    /\ W1 \in CodesOf(census_clean.ages)
    /\ \E i \in 1..Len(census_data) :
          /\ census_data[i].lacode = W1
          /\ IsNaN(census_data[i].residents_total)
          /\ census_data[i].total_16_17 = F(1)

\* One table of the panel after the merges: as many rows as the balanced
\* panel, one per (Area, Period), each with the index of its Period and,
\* once merged, the rurality code of its Area (missing when the table has
\* no row for it).
OneRowPerCellAfterMerges(rows) ==
    /\ Len(rows) = Len(balanced_panel)
    /\ \A i \in 1..Len(rows) :
          /\ RowCount(rows, rows[i].lacode, rows[i].year_quarter) = 1
          /\ Has(rows[i], "index_15") =>
                 \/ \E k \in 1..Len(inflation_data) :
                        /\ inflation_data[k].year_quarter = rows[i].year_quarter
                        /\ inflation_data[k].index_15 = rows[i].index_15
                 \/ /\ IsNaN(rows[i].index_15)
                    /\ \A k \in 1..Len(inflation_data) :
                          inflation_data[k].year_quarter # rows[i].year_quarter
          /\ Has(rows[i], "rural_code") =>
                 \/ \E k \in 1..Len(rural_urban) :
                        /\ rural_urban[k].LAD23CD = rows[i].lacode
                        /\ rural_urban[k].rural_code = rows[i].rural_code
                 \/ /\ rows[i].rural_code = NullStr
                    /\ \A k \in 1..Len(rural_urban) :
                          rural_urban[k].LAD23CD # rows[i].lacode

\* C25: merging the inflation index and the rurality classification leaves
\* one row per (Area, Period) and the number of rows unchanged, each row
\* with the one index value of its Period and the one rurality code of its
\* Area, whatever rows the two tables hold.
C25_MergesKeepOneRowPerCell ==
    /\ full_panel # << >> => OneRowPerCellAfterMerges(full_panel)
    /\ full_panel_csv.written => OneRowPerCellAfterMerges(full_panel_csv.rows)

\* The seven Area-code sets compared by the census check.
SevenCodeSets ==
    {CodesOf(balanced_panel), CodesOf(census_clean.population),
     CodesOf(census_clean.ages), CodesOf(census_clean.employment),
     CodesOf(census_clean.tenure), CodesOf(census_clean.ethnicity),
     CodesOf(census_data)}

\* C26: the Area-code check prints "identical" exactly when the seven code
\* sets (panel, five cleaned census tables, merged census table) are all
\* equal, prints one verdict only, and the run goes on to the census merge
\* whatever the verdict.
C26_AllEqualIffSevenSetsEqual ==
    /\ CensusChecked =>
          /\ [msg |-> "all_equal", arg |-> "True"] \in printed
                <=> \A s, t \in SevenCodeSets : s = t
          /\ [msg |-> "all_equal", arg |-> "False"] \in printed
                <=> \E s, t \in SevenCodeSets : s # t
          /\ pc # "census_checks"
    /\ pc = "merge_census" => CensusChecked

\* C26 witness: the panel and the merged census table have the same codes
\* while a cleaned table lacks one; the verdict is "not identical" and the
\* census merge has run all the same.
C26_Witness ==
    /\ [msg |-> "all_equal", arg |-> "False"] \in printed
    /\ CodesOf(balanced_panel) = CodesOf(census_data)
    /\ full_panel # << >>
    /\ pc = "inflation"

\* C27: on every row of the written panel is_rural is 0 or 1, it is 1 exactly
\* when the rurality code listed for the row's Area begins with "R", it is the
\* same on all rows of an Area, and no row of an Area absent from the rurality
\* table is written.
C27_IsRuralFollowsRuralCode ==
    full_panel_csv.written =>
        LET rows == full_panel_csv.rows
        IN  \A i \in 1..Len(rows) :
              /\ rows[i].is_rural \in {0, 1}
              /\ \E k \in 1..Len(rural_urban) :
                    rural_urban[k].LAD23CD = rows[i].lacode
              /\ \A k \in 1..Len(rural_urban) :
                    rural_urban[k].LAD23CD = rows[i].lacode =>
                        (rows[i].is_rural = 1
                            <=> StartsWith(rural_urban[k].rural_code, {"R"}))
              /\ \A j \in 1..Len(rows) :
                    rows[j].lacode = rows[i].lacode =>
                        rows[j].is_rural = rows[i].is_rural

\* The volume recorded over the case records at the given positions.
VolumeOver(S) ==
    IntSumSeq([i \in 1..Len(clean_data) |-> IF i \in S THEN clean_data[i].volume ELSE 0])

\* The case records of one Period that no Area row counts: a missing area
\* code, or one outside the England and Wales lookup.
RecordsOutsideAreas(p) ==
    {i \in RecordsOfPeriod(p) : clean_data[i].lacode \notin LookupAreas}

\* la_total_volume summed over the rows of one Period of the balanced panel.
AreaVolumeOf(p) ==
    FSumSeq([i \in 1..Len(balanced_panel) |->
                IF balanced_panel[i].year_quarter = p
                THEN balanced_panel[i].la_total_volume ELSE FZero])

\* C28: for every Period of the balanced panel the la_total_volume of all
\* Areas adds up to the volume of the Period's case records whose area code
\* is in the England/Wales lookup; with non-negative volumes that is at most
\* the Period's national total_volume, and less than it when a record of the
\* Period with positive volume has a null area code or one outside the lookup.
C28_AreaVolumesAddUp ==
    BalancerDone =>
        \A p \in PeriodsOf(balanced_panel) :
            LET areas    == AreaVolumeOf(p)
                outside  == RecordsOutsideAreas(p)
                national == F(VolumeOver(RecordsOfPeriod(p)))
            IN  /\ areas = F(VolumeOver(RecordsOfPeriod(p) \ outside))
                /\ (\A i \in 1..Len(clean_data) : clean_data[i].volume >= 0) =>
                      /\ \A j \in 1..Len(balanced_panel) :
                            balanced_panel[j].year_quarter = p =>
                                balanced_panel[j].total_volume = national
                      /\ FLeq(areas, national)
                      /\ (\E i \in outside : clean_data[i].volume > 0)
                            => areas # national

\* C28 witness: a Period of the balanced panel with one record in an Area of
\* the lookup and one with a null or foreign area code, so that the Areas add
\* up to 1 while the national total is 2.
C28_Witness ==
    /\ BalancerDone
    /\ \E j \in 1..Len(balanced_panel) :
          /\ AreaVolumeOf(balanced_panel[j].year_quarter) = F(1)
          /\ balanced_panel[j].total_volume = F(2)
          /\ \E i \in RecordsOutsideAreas(balanced_panel[j].year_quarter) :
                clean_data[i].volume > 0

\* The distinct non-null provider identifiers of the case records of one
\* (Area, Period).
ProvidersOf(a, p) == {clean_data[i].firm_code : i \in RecordsOf(a, p)} \ {NullStr}

\* C29: on every row unique_providers is the number of distinct non-null
\* provider identifiers among the case records of its (Area, Period), and
\* desert = 1 exactly when unique_providers = 0, that is exactly when no
\* record of the cell has a non-null provider identifier, whatever the
\* cell's la_total_volume.
C29_DesertMeansNoProvider ==
    EveryPanelRow(LAMBDA r :
        /\ r.unique_providers
              = F(Cardinality(ProvidersOf(r.lacode, r.year_quarter)))
        /\ Has(r, "desert") =>
              /\ r.desert \in {0, 1}
              /\ r.desert = 1 <=> r.unique_providers = FZero
              /\ r.desert = 1 <=> ProvidersOf(r.lacode, r.year_quarter) = {})

\* C29 witness: a written row of a cell whose records all lack a provider
\* identifier: a desert with a positive la_total_volume.
C29_Witness ==
    SomeSavedRow(LAMBDA r :
        /\ r.desert = 1
        /\ r.unique_providers = FZero
        /\ RecordsOf(r.lacode, r.year_quarter) # {}
        /\ r.la_total_volume # FZero
        /\ FLeq(FZero, r.la_total_volume))

\* Row s carries every column of row r with r's value.
RowExtends(r, s) ==
    /\ DOMAIN r \subseteq DOMAIN s
    /\ \A c \in DOMAIN r : s[c] = r[c]

\* Every row of the new table extends a row of the old one, and every row
\* of the old table is extended by a row of the new one.
TableExtends(old, new) ==
    /\ \A j \in 1..Len(new) : \E i \in 1..Len(old) : RowExtends(old[i], new[j])
    /\ \A i \in 1..Len(old) : \E j \in 1..Len(new) : RowExtends(old[i], new[j])

\* The table a step of the Assembler starts from.
PanelBefore == IF pc = "merge_census" THEN balanced_panel ELSE full_panel

\* C30: once the balanced panel is built, every later step leaves it alone and
\* only adds columns to the full panel: each row it produces carries the
\* Area code, the Period, the three facts, the national totals and every
\* column added before, with the values they had, and the written file
\* carries the rows of the full panel as they are.
C30_LaterStepsOnlyAddColumns ==
    [][BalancerDone =>
          /\ balanced_panel' = balanced_panel
          /\ TableExtends(PanelBefore, full_panel')
          /\ full_panel_csv'.written => full_panel_csv'.rows = full_panel]_vars

\* C30 witness: the written panel, whose rows carry the facts and national
\* totals of the balanced panel's row of the same (Area, Period) together
\* with every column added since, among them a ratio that was coerced from
\* missing to zero and an index value other than 1.
C30_Witness ==
    /\ full_panel_csv.written
    /\ full_panel_csv.rows # << >>
    /\ \A j \in 1..Len(full_panel_csv.rows) :
          /\ \E i \in 1..Len(balanced_panel) :
                RowExtends(balanced_panel[i], full_panel_csv.rows[j])
          /\ {"index_15", "adjusted_la_total_value", "la_val_vol", "volume_index",
              "log_working_age", "exposure", "post", "desert", "ever_desert",
              "prop_zero", "pop_zero", "is_rural"}
                \subseteq DOMAIN full_panel_csv.rows[j]
    /\ \E j \in 1..Len(full_panel_csv.rows) :
          /\ full_panel_csv.rows[j].la_total_volume = FZero
          /\ full_panel_csv.rows[j].la_val_vol = FZero
    /\ \E j \in 1..Len(full_panel_csv.rows) :
          /\ full_panel_csv.rows[j].index_15 = F(2)
          /\ full_panel_csv.rows[j].la_total_value # FZero

=============================================================================
